---- MODULE Spec2Model ----
(***************************************************************************)
(* A model of anot's input layer: src/src/hunks.rs (modified-line          *)
(* extraction from `git diff --unified=0`) and src/src/input.rs (file type *)
(* detection, lazily built tree-sitter queries, directory scan).           *)
(*                                                                         *)
(* Text is a sequence of one-character strings, a file is a sequence of    *)
(* lines, a path is a record [abs, comps].  The git binary, the std        *)
(* library (Path, Command, LazyLock) and walkdir are the program's         *)
(* environment; they are modelled by what they do on the inputs the model  *)
(* draws.                                                                  *)
(***************************************************************************)
EXTENDS Integers, Sequences, FiniteSets, TLC

VARIABLES
    \* ---- the world get_modified_line_numbers runs in
    gitInstalled,   \* a `git` binary is on PATH
    isRepo,         \* RepoRoot holds a git repository
    committed,      \* content of TrackedFile at HEAD (a sequence of lines)
    working,        \* content of TrackedFile in the working tree
    cwd,            \* the calling process's current directory (absolute comps)
    call,           \* the record of the last get_modified_line_numbers call
    \* ---- determine_file_type
    lastPath,       \* the path last classified
    lastType,       \* the Result it got: "Python" | "Rust" | "JavaScript" | "Err"
    \* ---- scan_directory
    fs,             \* the file system below ScanRoot: path -> node
    scan,           \* the record of the last scan_directory call
    \* ---- the LazyLock statics and their callers
    once,           \* per variant: the LazyLock's state
    queryBuilds,    \* per variant: times the LazyLock closure has run
    langBuilds,     \* per variant: times LANGUAGE.into() has run
    pc,             \* per thread: where it is, and in a call for which variant
    got             \* the objects the calls have returned, in order

hunkVars == <<gitInstalled, isRepo, committed, working, cwd, call>>
typeVars == <<lastPath, lastType>>
scanVars == <<fs, scan>>
lazyVars == <<once, queryBuilds, langBuilds, pc, got>>
vars == <<gitInstalled, isRepo, committed, working, cwd, call,
          lastPath, lastType, fs, scan,
          once, queryBuilds, langBuilds, pc, got>>

(***************************************************************************)
(* Bounds of the model.                                                    *)
(***************************************************************************)
MaxLines == 2       \* lines of a file in the free-editing specification
MaxAppend == 2      \* lines the rewrite of the test fixture may append
MaxNameLen == 4     \* characters of a classified file name
MaxNodes == 2       \* entries of the scanned directory tree
MaxCalls == 3       \* calls made on the lazy statics and the grammars

(***************************************************************************)
(* Text.                                                                   *)
(***************************************************************************)
DigitChar == <<"0", "1", "2", "3", "4", "5", "6", "7", "8", "9">>
Letters == {"a", "b", "c", "d", "e", "f", "g", "h", "i", "j", "k", "l", "m",
            "n", "o", "p", "q", "r", "s", "t", "u", "v", "w", "x", "y", "z"}
NL == "\n"
\* A byte that is no part of any UTF-8 sequence (0xFF).
BadByte == "<FF>"

IsDigit(c) == \E d \in 1..10 : DigitChar[d] = c
DigitVal(c) == (CHOOSE d \in 1..10 : DigitChar[d] = c) - 1

RECURSIVE ToDigits(_)
\* The decimal rendering of n >= 0.
ToDigits(n) ==
    IF n < 10 THEN <<DigitChar[n + 1]>>
    ELSE ToDigits(n \div 10) \o <<DigitChar[(n % 10) + 1]>>

RECURSIVE Flatten(_)
\* The lines of a text, each followed by a newline, as one character sequence.
Flatten(lines) ==
    IF lines = <<>> THEN <<>>
    ELSE Head(lines) \o <<NL>> \o Flatten(Tail(lines))

Max(S) == CHOOSE x \in S : \A y \in S : y <= x

(***************************************************************************)
(* Paths (std::path::Path) and the directory layout of the model.          *)
(***************************************************************************)
Path(abs, comps) == [abs |-> abs, comps |-> comps]
EmptyPath == Path(FALSE, <<>>)             \* Path::new("")
DotPath == Path(FALSE, <<".">>)            \* Path::new(".")

RepoRoot == <<"w">>                        \* /w
SrcDir == <<"w", "src">>                   \* /w/src
TrackedFile == <<"w", "src", "f.rs">>      \* /w/src/f.rs
Dirs == {<<>>, RepoRoot, SrcDir}

\* The forms of file_path the callers pass.
PathForms ==
    { Path(TRUE, TrackedFile),             \* /w/src/f.rs
      Path(FALSE, <<"src", "f.rs">>),      \* src/f.rs
      Path(FALSE, <<"f.rs">>),             \* f.rs
      Path(FALSE, <<".", "f.rs">>),        \* ./f.rs
      EmptyPath,                           \* the empty path
      Path(TRUE, <<>>) }                   \* /

RECURSIVE Norm(_)
\* A component sequence without its "." components.
Norm(comps) ==
    IF comps = <<>> THEN <<>>
    ELSE IF Head(comps) = "." THEN Norm(Tail(comps))
    ELSE <<Head(comps)>> \o Norm(Tail(comps))

\* The absolute location a path denotes for a process whose current
\* directory is base.
Resolve(base, p) == IF p.abs THEN Norm(p.comps) ELSE Norm(base \o p.comps)

IsPrefix(a, b) == Len(a) <= Len(b) /\ SubSeq(b, 1, Len(a)) = a

\* Path::parent, an Option as a set of at most one path: None when the path
\* has no component left to drop.
Parent(p) ==
    IF p.comps = <<>> THEN {}
    ELSE {Path(p.abs, SubSeq(p.comps, 1, Len(p.comps) - 1))}

\* file_path.parent().unwrap_or_else(|| Path::new("."))
ParentDir(p) == IF Parent(p) = {} THEN DotPath ELSE CHOOSE d \in Parent(p) : TRUE

(***************************************************************************)
(* File contents.                                                          *)
(***************************************************************************)
LineA == <<"a">>
\* A line that reads like a hunk header whose new side starts at 0.
LinePattern == <<"@", "@", " ", "-", "1", " ", "+", "0", " ", "@", "@">>
\* A line git accepts as hunk context (it starts with a letter) and that
\* contains the hunk header pattern.
LineContext == <<"x", " ", "@", "@", " ", "-", "1", " ", "+", "9", ",", "2",
                 " ", "@", "@">>
\* A line that is not UTF-8.
LineLatin1 == <<BadByte>>
Alphabet == {LineA, LinePattern, LineContext, LineLatin1}

RECURSIVE SeqsUpTo(_, _)
\* The sequences over S of length at most n.
SeqsUpTo(S, n) ==
    IF n = 0 THEN {<<>>}
    ELSE LET shorter == SeqsUpTo(S, n - 1)
         IN shorter \cup {Append(q, x) : q \in shorter, x \in S}

Contents == SeqsUpTo(Alphabet, MaxLines)

\* The fixture of test_modified_lines.
Line1 == <<"l", "i", "n", "e", " ", "1">>
Line2 == <<"l", "i", "n", "e", " ", "2">>
Line3 == <<"l", "i", "n", "e", " ", "3">>
Modified(l) == <<"m", "o", "d", "i", "f", "i", "e", "d", " ">> \o l
NewLine(k) == <<"n", "e", "w", " ", "l", "i", "n", "e", " ">> \o ToDigits(k)
TestInitial == <<Line1, Line2, Line3>>
TestRewritten == <<Line1, Modified(Line2), Line3, NewLine(4), NewLine(5)>>

(***************************************************************************)
(* git diff --unified=0 <file>: the text git prints for one tracked file.  *)
(***************************************************************************)
RECURSIVE Alignments(_, _, _, _)
\* The longest common subsequences of old[i..] and new[j..], each as the set
\* of matched index pairs.  Which of them git picks is left open.
Alignments(old, new, i, j) ==
    IF i > Len(old) \/ j > Len(new) THEN {{}}
    ELSE LET both == IF old[i] = new[j]
                     THEN {m \cup {<<i, j>>} :
                              m \in Alignments(old, new, i + 1, j + 1)}
                     ELSE {}
             cands == both \cup Alignments(old, new, i + 1, j)
                           \cup Alignments(old, new, i, j + 1)
             best == Max({Cardinality(m) : m \in cands})
         IN {m \in cands : Cardinality(m) = best}

\* The hunk between two consecutive matched pairs a and b (none when the
\* lines between them are all matched), as a sequence of at most one hunk.
HunkBetween(old, new, a, b) ==
    LET del == b[1] - a[1] - 1
        add == b[2] - a[2] - 1
    IN IF del = 0 /\ add = 0 THEN <<>>
       ELSE <<[oldStart |-> IF del = 0 THEN a[1] ELSE a[1] + 1,
             oldCount |-> del,
             newStart |-> IF add = 0 THEN a[2] ELSE a[2] + 1,
             newCount |-> add,
             removed |-> SubSeq(old, a[1] + 1, b[1] - 1),
             added |-> SubSeq(new, a[2] + 1, b[2] - 1),
             after |-> a[1]]>>

RECURSIVE HunksFrom(_, _, _, _)
\* The hunks of alignment m that lie after the matched pair a.
HunksFrom(old, new, m, a) ==
    LET later == {p \in m : p[1] > a[1]}
        b == IF later = {} THEN <<Len(old) + 1, Len(new) + 1>>
             ELSE CHOOSE p \in later : \A q \in later : p[1] <= q[1]
        h == HunkBetween(old, new, a, b)
        rest == IF later = {} THEN <<>> ELSE HunksFrom(old, new, m, b)
    IN h \o rest

Hunks(old, new, m) == HunksFrom(old, new, m, <<0, 0>>)

RECURSIVE FuncName(_, _)
\* The text git appends to a hunk header: the nearest line at or before old
\* line i that starts with a letter, "_" or "$".
FuncName(old, i) ==
    IF i = 0 THEN <<>>
    ELSE IF old[i] # <<>> /\ old[i][1] \in Letters \cup {"_", "$"}
         THEN <<" ">> \o old[i]
         ELSE FuncName(old, i - 1)

\* "start" when count is 1, otherwise "start,count".
RangeText(start, count) ==
    IF count = 1 THEN ToDigits(start)
    ELSE ToDigits(start) \o <<",">> \o ToDigits(count)

HunkHeader(old, h) ==
    <<"@", "@", " ", "-">> \o RangeText(h.oldStart, h.oldCount)
        \o <<" ", "+">> \o RangeText(h.newStart, h.newCount)
        \o <<" ", "@", "@">> \o FuncName(old, h.after)

RECURSIVE Prefixed(_, _)
Prefixed(c, lines) ==
    IF lines = <<>> THEN <<>>
    ELSE <<<<c>> \o Head(lines)>> \o Prefixed(c, Tail(lines))

RECURSIVE HunkLines(_, _)
HunkLines(old, hs) ==
    IF hs = <<>> THEN <<>>
    ELSE <<HunkHeader(old, Head(hs))>>
             \o Prefixed("-", Head(hs).removed)
             \o Prefixed("+", Head(hs).added)
             \o HunkLines(old, Tail(hs))

Preamble ==
    << <<"d", "i", "f", "f", " ", "-", "-", "g", "i", "t", " ",
         "a", "/", "f", ".", "r", "s", " ", "b", "/", "f", ".", "r", "s">>,
       <<"i", "n", "d", "e", "x", " ", "a", "9", "2", ".", ".", "1", "0", "f",
         " ", "1", "0", "0", "6", "4", "4">>,
       <<"-", "-", "-", " ", "a", "/", "f", ".", "r", "s">>,
       <<"+", "+", "+", " ", "b", "/", "f", ".", "r", "s">> >>

\* The lines git prints for old -> new under alignment m: nothing when the
\* file is unchanged.
DiffLines(old, new, m) ==
    IF old = new THEN <<>> ELSE Preamble \o HunkLines(old, Hunks(old, new, m))

DiffText(old, new, m) == Flatten(DiffLines(old, new, m))

(***************************************************************************)
(* src/src/hunks.rs: get_modified_line_numbers.                            *)
(***************************************************************************)
At(s, k) == IF k \in 1..Len(s) THEN s[k] ELSE ""

RECURSIVE DigitsEnd(_, _)
\* \d+ is greedy: the index after the longest run of digits that starts at k
\* (k itself when s[k] is no digit).
DigitsEnd(s, k) == IF IsDigit(At(s, k)) THEN DigitsEnd(s, k + 1) ELSE k

Lit(s, k, w) == \A n \in 1..Len(w) : At(s, k + n - 1) = w[n]

NoMatch == [ok |-> FALSE, start |-> <<>>, count |-> <<>>, end |-> 0]

\* The regex  @@ -\d+(?:,\d+)? \+(\d+)(?:,(\d+))? @@  anchored at index i of
\* s: group 1 (start), group 2 (count, empty when the group did not take
\* part) and the index after the match.
MatchAt(s, i) ==
    LET a == i + 4                         \* the old start
        b == DigitsEnd(s, a)
        c == IF At(s, b) = "," THEN DigitsEnd(s, b + 1) ELSE b
        d == c + 2                         \* the new start
        e == DigitsEnd(s, d)
        g == IF At(s, e) = "," THEN DigitsEnd(s, e + 1) ELSE e
    IN IF /\ Lit(s, i, <<"@", "@", " ", "-">>)
          /\ b > a
          /\ (At(s, b) = "," => c > b + 1)
          /\ Lit(s, c, <<" ", "+">>)
          /\ e > d
          /\ (At(s, e) = "," => g > e + 1)
          /\ Lit(s, g, <<" ", "@", "@">>)
       THEN [ok |-> TRUE,
             start |-> SubSeq(s, d, e - 1),
             count |-> IF At(s, e) = "," THEN SubSeq(s, e + 1, g - 1) ELSE <<>>,
             end |-> g + 3]
       ELSE NoMatch

\* The indices of s at which the regex matches.
MatchStarts(s) == {i \in 1..Len(s) : MatchAt(s, i).ok}

RECURSIVE CapturesFrom(_, _, _)
\* The leftmost match at or after index i, then the matches after its end.
CapturesFrom(s, starts, i) ==
    LET later == {k \in starts : k >= i}
    IN IF later = {} THEN <<>>
       ELSE LET m == MatchAt(s, CHOOSE k \in later : \A n \in later : k <= n)
            IN <<m>> \o CapturesFrom(s, starts, m.end)

\* re.captures_iter: the leftmost matches, none overlapping an earlier one.
CapturesIter(s) == CapturesFrom(s, MatchStarts(s), 1)

RECURSIVE ParseUsize(_)
\* str::parse::<usize> of a run of ASCII digits.  The digit runs of the model
\* are short, so the parse never overflows and never fails.
ParseUsize(ds) ==
    IF ds = <<>> THEN 0
    ELSE 10 * ParseUsize(SubSeq(ds, 1, Len(ds) - 1)) + DigitVal(ds[Len(ds)])

\* .get(2).and_then(|m| m.as_str().parse().ok()).unwrap_or(1)
CountOf(m) == IF m.count = <<>> THEN 1 ELSE ParseUsize(m.count)

\* A slip: the inclusive range start..=(start + count).
LineRangeInclusive(start, count) == start .. (start + count)

\* start..(start + count)
LineRange(start, count) == start .. (start + count - 1)

\* The filter_map / flat_map / collect chain over the captures.
CollectLines(caps) ==
    UNION {LineRange(ParseUsize(caps[k].start), CountOf(caps[k])) :
              k \in 1..Len(caps)}

\* String::from_utf8(output.stdout) is Ok
FromUtf8Ok(bytes) == \A k \in 1..Len(bytes) : bytes[k] # BadByte

\* What Command::output() gives when the child could not be started.
SpawnError == [spawned |-> FALSE, success |-> FALSE, stdout |-> <<>>,
               gitCwd |-> <<>>]

\* A slip: the exit status is not looked at.
OutputOkAnyStatus(out) == out.spawned

\* Ok(out) if out.status.success()
OutputOk(out) == out.spawned /\ out.success

NoCall == [file_path |-> EmptyPath, parent_dir |-> DotPath,
           output |-> SpawnError,
           decoded |-> FALSE, captures |-> <<>>, regexRan |-> FALSE,
           ret |-> {}, done |-> FALSE]

\* The value get_modified_line_numbers returns for file_path when
\* Command::output() gave out, with what it did on the way.
CallRecord(file_path, out) ==
    LET parsed == OutputOk(out) /\ FromUtf8Ok(out.stdout)
        caps == IF parsed THEN CapturesIter(out.stdout) ELSE <<>>
    IN [file_path |-> file_path,
        parent_dir |-> ParentDir(file_path),
        output |-> out,
        decoded |-> parsed,
        captures |-> caps,
        regexRan |-> parsed,
        ret |-> IF parsed THEN CollectLines(caps) ELSE {},
        done |-> TRUE]

(***************************************************************************)
(* Command::new("git").current_dir(dir).args(..).arg(file_path).output()   *)
(***************************************************************************)

\* The child's chdir(dir) succeeds: chdir("") is ENOENT.
ChdirOk(dir) == dir # EmptyPath /\ Resolve(cwd, dir) \in Dirs

\* The outcomes of running git in dir on file_path.  killed: the child is
\* ended by a signal after it has written its output.
GitOutputs(dir, file_path) ==
    IF ~gitInstalled \/ ~ChdirOk(dir) THEN {SpawnError}
    ELSE LET gitCwd == Resolve(cwd, dir)
             target == Resolve(gitCwd, file_path)
             fail == [spawned |-> TRUE, success |-> FALSE, stdout |-> <<>>,
                      gitCwd |-> gitCwd]
         IN IF ~(isRepo /\ IsPrefix(RepoRoot, gitCwd)) THEN {fail}
            ELSE IF target # TrackedFile THEN {fail}
            ELSE {[spawned |-> TRUE, success |-> ~killed,
                   stdout |-> DiffText(committed, working, m),
                   gitCwd |-> gitCwd] :
                     m \in Alignments(committed, working, 1, 1),
                     killed \in BOOLEAN}

GetModifiedLineNumbers(file_path) ==
    /\ \E out \in GitOutputs(ParentDir(file_path), file_path) :
           call' = CallRecord(file_path, out)
    /\ UNCHANGED <<gitInstalled, isRepo, committed, working, cwd>>
    /\ UNCHANGED <<typeVars, scanVars, lazyVars>>

(***************************************************************************)
(* The states the other parts of the program rest in while one part runs.  *)
(***************************************************************************)
Variants == {"Python", "Rust", "JavaScript"}
Threads == {"t1", "t2"}

HunksIdle ==
    /\ gitInstalled = TRUE /\ isRepo = TRUE
    /\ committed = <<>> /\ working = <<>>
    /\ cwd = RepoRoot /\ call = NoCall
TypeIdle == lastPath = <<>> /\ lastType = "Err"
ScanIdle ==
    /\ fs = <<>>
    /\ scan = [done |-> FALSE, root |-> <<>>, files |-> {}, ok |-> TRUE]
LazyIdle ==
    /\ once = [v \in Variants |-> "Incomplete"]
    /\ queryBuilds = [v \in Variants |-> 0]
    /\ langBuilds = [v \in Variants |-> 0]
    /\ pc = [t \in Threads |-> [at |-> "idle", v |-> "Python"]]
    /\ got = <<>>

(***************************************************************************)
(* Spec: one tracked file, edited and committed freely, and               *)
(* get_modified_line_numbers called on its absolute path.                  *)
(***************************************************************************)
WriteFile(content) ==
    /\ content # working
    /\ working' = content
    /\ call' = NoCall
    /\ UNCHANGED <<gitInstalled, isRepo, committed, cwd>>
    /\ UNCHANGED <<typeVars, scanVars, lazyVars>>

Commit ==
    /\ committed # working
    /\ committed' = working
    /\ call' = NoCall
    /\ UNCHANGED <<gitInstalled, isRepo, working, cwd>>
    /\ UNCHANGED <<typeVars, scanVars, lazyVars>>

Init == HunksIdle /\ TypeIdle /\ ScanIdle /\ LazyIdle

Next ==
    \/ \E content \in Contents : WriteFile(content)
    \/ Commit
    \/ GetModifiedLineNumbers(Path(TRUE, TrackedFile))

Spec == Init /\ [][Next]_vars

(***************************************************************************)
(* SpecPath: the caller moves between directories, git and the repository  *)
(* come and go, and get_modified_line_numbers is called with every form of *)
(* path.                                                                   *)
(***************************************************************************)
PathContents == {<<LineA>>, <<LineA, LineA>>, <<LineA, LineLatin1>>}

Chdir(d) ==
    /\ d # cwd
    /\ cwd' = d
    /\ call' = NoCall
    /\ UNCHANGED <<gitInstalled, isRepo, committed, working>>
    /\ UNCHANGED <<typeVars, scanVars, lazyVars>>

SetGitInstalled(b) ==
    /\ b # gitInstalled
    /\ gitInstalled' = b
    /\ call' = NoCall
    /\ UNCHANGED <<isRepo, committed, working, cwd>>
    /\ UNCHANGED <<typeVars, scanVars, lazyVars>>

SetRepo(b) ==
    /\ b # isRepo
    /\ isRepo' = b
    /\ call' = NoCall
    /\ UNCHANGED <<gitInstalled, committed, working, cwd>>
    /\ UNCHANGED <<typeVars, scanVars, lazyVars>>

InitPath ==
    /\ gitInstalled = TRUE /\ isRepo = TRUE
    /\ committed = <<LineA>> /\ working = <<LineA>>
    /\ cwd = RepoRoot /\ call = NoCall
    /\ TypeIdle /\ ScanIdle /\ LazyIdle

NextPath ==
    \/ \E d \in {RepoRoot, SrcDir} : Chdir(d)
    \/ \E b \in BOOLEAN : SetGitInstalled(b)
    \/ \E b \in BOOLEAN : SetRepo(b)
    \/ \E content \in PathContents : WriteFile(content)
    \/ \E p \in PathForms : GetModifiedLineNumbers(p)

SpecPath == InitPath /\ [][NextPath]_vars

(***************************************************************************)
(* SpecTest: test_modified_lines, with the rewrite drawn from a family     *)
(* that holds the test's own: each committed line is kept, modified or     *)
(* deleted, and new lines are appended.                                    *)
(***************************************************************************)
RECURSIVE Rewrite(_, _, _)
Rewrite(old, choice, k) ==
    IF k > Len(old) THEN <<>>
    ELSE (CASE choice[k] = "keep" -> <<old[k]>>
            [] choice[k] = "modify" -> <<Modified(old[k])>>
            [] choice[k] = "delete" -> <<>>)
         \o Rewrite(old, choice, k + 1)

RECURSIVE NewLines(_, _)
\* "new line 4", "new line 5", ...: n lines numbered from k.
NewLines(k, n) == IF n = 0 THEN <<>> ELSE <<NewLine(k)>> \o NewLines(k + 1, n - 1)

Rewrites ==
    {Rewrite(TestInitial, choice, 1) \o NewLines(Len(TestInitial) + 1, n) :
        choice \in [1..Len(TestInitial) -> {"keep", "modify", "delete"}],
        n \in 0..MaxAppend}

InitTest ==
    /\ gitInstalled = TRUE /\ isRepo = TRUE
    /\ committed = TestInitial /\ working = TestInitial
    /\ cwd = RepoRoot /\ call = NoCall
    /\ TypeIdle /\ ScanIdle /\ LazyIdle

NextTest ==
    \/ \E content \in Rewrites : WriteFile(content)
    \/ GetModifiedLineNumbers(Path(TRUE, TrackedFile))

SpecTest == InitTest /\ [][NextTest]_vars

(***************************************************************************)
(* The claims about get_modified_line_numbers.                             *)
(***************************************************************************)
\* The lines of a text that ends each line with a newline.
TextLines(text) ==
    LET ends == {k \in 1..Len(text) : text[k] = NL}
        starts == {1} \cup {k + 1 : k \in ends}
    IN {SubSeq(text, a, (CHOOSE b \in ends : b >= a /\ \A c \in ends : c >= a => b <= c) - 1) :
           a \in {x \in starts : x <= Len(text)}}

\* The hunk header lines of a unified diff: its lines that start with "@@".
HeaderLines(text) == {l \in TextLines(text) : Lit(l, 1, <<"@", "@">>)}

\* [newStart, newStart + newCount) of a hunk header line, newCount 1 when
\* omitted.
HeaderRange(l) ==
    LET m == MatchAt(l, 1)
        start == ParseUsize(m.start)
        count == IF m.count = <<>> THEN 1 ELSE ParseUsize(m.count)
    IN {n \in start .. (start + count) : n < start + count}

Succeeded == call.done /\ call.output.spawned /\ call.output.success
                 /\ FromUtf8Ok(call.output.stdout)

\* C1: after a successful diff the returned set is the union, over the hunk
\* header lines of the diff text, of [newStart, newStart + newCount).
C1_UnionOfHeaderRanges ==
    Succeeded =>
        call.ret = UNION {HeaderRange(l) : l \in HeaderLines(call.output.stdout)}

\* C2: when the command cannot be started, exits without success or prints
\* bytes that are not UTF-8, the call returns the empty set and runs the
\* regex on nothing.
C2_FailureGivesEmptySet ==
    (call.done /\ ~Succeeded) =>
        /\ call.ret = {}
        /\ ~call.regexRan
        /\ call.captures = <<>>

\* A call whose git wrote a diff with a hunk header and then ended without
\* success returned the empty set.
C2_Witness ==
    /\ call.done /\ call.output.spawned /\ ~call.output.success
    /\ HeaderLines(call.output.stdout) # {}
    /\ call.ret = {}

\* C3: with the 3-line file committed, the call returns the positions of the
\* working copy's lines that are not lines of the commit (changed or added),
\* and none of its unchanged lines; for the test's rewrite that is {2, 4, 5}.
C3_ChangedAndAddedLines ==
    Succeeded =>
        /\ call.ret = {k \in 1..Len(working) :
                          \A j \in 1..Len(committed) : working[k] # committed[j]}
        /\ (working = TestRewritten => call.ret = {2, 4, 5})

\* The test's own case: "line 1 / line 2 / line 3" committed, the file
\* rewritten with line 2 modified and two lines appended, and the call made.
C3_Witness ==
    /\ Succeeded
    /\ committed = TestInitial /\ working = TestRewritten
    /\ call.ret = {2, 4, 5}

\* The directory C5 says git runs in: the parent directory of file_path, and
\* the caller's current directory for a path with no parent component.
HasParentComponent(p) == Len(p.comps) >= 2 \/ (p.abs /\ Len(p.comps) = 1)
ClaimedDir(p) ==
    IF HasParentComponent(p)
    THEN Resolve(cwd, Path(p.abs, SubSeq(p.comps, 1, Len(p.comps) - 1)))
    ELSE cwd

\* C5: git runs in the parent directory of file_path, and in the current
\* directory when file_path has no parent component (a bare file name).
C5_RunsInParentOrCurrentDir ==
    (call.done /\ gitInstalled /\ ClaimedDir(call.file_path) \in Dirs) =>
        /\ call.output.spawned
        /\ call.output.gitCwd = ClaimedDir(call.file_path)

\* C7: every returned line number is at least 1.
C7_PositiveLineNumbers == call.done => \A n \in call.ret : n >= 1

\* C9: every returned line number lies in the new-side range of a hunk
\* header line of the diff text.
C9_OnlyHeaderLinesContribute ==
    call.done =>
        \A n \in call.ret :
            \E l \in HeaderLines(call.output.stdout) : n \in HeaderRange(l)

\* C10: whatever the form of file_path, the file git inspects (its path
\* argument resolved against the directory git runs in) is the file the
\* path denotes for the caller.
C10_InspectsTheDenotedFile ==
    (call.done /\ call.output.spawned
        /\ Resolve(cwd, call.file_path) = TrackedFile) =>
            Resolve(call.output.gitCwd, call.file_path) = TrackedFile

(***************************************************************************)
(* src/src/input.rs: FileType::try_from / determine_file_type.             *)
(* A path is the sequence of its components, a component a sequence of     *)
(* characters.                                                             *)
(***************************************************************************)
Dot == <<".">>
DotDot == <<".", ".">>

\* Path::components: a "." component is kept only at the front.
Components(path) ==
    LET keep == {k \in 1..Len(path) : k = 1 \/ path[k] # Dot}
        nth[n \in 0..Len(path)] ==
            IF n = 0 THEN 0
            ELSE CHOOSE k \in keep : k > nth[n - 1] /\ \A j \in keep : j > nth[n - 1] => k <= j
    IN [n \in 1..Cardinality(keep) |-> path[nth[n]]]

\* Path::file_name, an Option as a sequence of at most one name: the last
\* component when it is a normal one.
FileName(path) ==
    LET cs == Components(path)
    IN IF cs = <<>> \/ cs[Len(cs)] \in {Dot, DotDot} THEN <<>>
       ELSE <<cs[Len(cs)]>>

\* Path::extension, an Option: the text after the last dot of the file name,
\* when the name has a dot that is not its first character.
Extension(path) ==
    LET f == FileName(path)
        dots == IF f = <<>> THEN {} ELSE {k \in 1..Len(f[1]) : f[1][k] = "."}
    IN IF dots = {} \/ Max(dots) = 1 THEN <<>>
       ELSE <<SubSeq(f[1], Max(dots) + 1, Len(f[1]))>>

\* OsStr::to_str, an Option: None when the bytes are not UTF-8.
ToStr(os) == IF \E k \in 1..Len(os) : os[k] = BadByte THEN <<>> ELSE <<os>>

\* path.extension().and_then(|ext| ext.to_str())
ExtStr(path) ==
    LET e == Extension(path) IN IF e = <<>> THEN <<>> ELSE ToStr(e[1])

\* A slip: the extension is matched without regard to case.
TryFromIgnoringCase(path) ==
    LET e == ExtStr(path)
        lower(c) == CASE c = "P" -> "p" [] c = "Y" -> "y" [] OTHER -> c
        l == IF e = <<>> THEN <<>> ELSE <<[k \in 1..Len(e[1]) |-> lower(e[1][k])]>>
    IN CASE l = <<<<"p", "y">>>> -> "Python"
         [] l = <<<<"r", "s">>>> -> "Rust"
         [] l = <<<<"j", "s">>>> -> "JavaScript"
         [] OTHER -> "Err"

\* FileType::try_from: the variant, or "Err".
TryFrom(path) ==
    LET e == ExtStr(path)
    IN CASE e = <<<<"p", "y">>>> -> "Python"
         [] e = <<<<"r", "s">>>> -> "Rust"
         [] e = <<<<"j", "s">>>> -> "JavaScript"
         [] OTHER -> "Err"

DetermineFileType(path) == TryFrom(path)

(***************************************************************************)
(* SpecType: determine_file_type applied to every path of one or two       *)
(* components over a small character set.                                  *)
(***************************************************************************)
NameChars == {".", "p", "y", "P", "r", "s", "j", BadByte}
Names == SeqsUpTo(NameChars, MaxNameLen)
DirPy == <<"d", ".", "p", "y">>
TypePaths == {<<n>> : n \in Names} \cup {<<DirPy, n>> : n \in Names}

Classify ==
    /\ lastType = "NotYet"
    /\ lastType' = DetermineFileType(lastPath)
    /\ UNCHANGED <<lastPath, hunkVars, scanVars, lazyVars>>

InitType ==
    /\ lastPath \in TypePaths
    /\ lastType = "NotYet"
    /\ HunksIdle /\ ScanIdle /\ LazyIdle

NextType == Classify

SpecType == InitType /\ [][NextType]_vars

EndsWith(name, suffix) ==
    /\ Len(name) >= Len(suffix)
    /\ SubSeq(name, Len(name) - Len(suffix) + 1, Len(name)) = suffix

\* The name a path ends in, for the claim: its last component that is not
\* ".", unless that is "..".
LastName(path) ==
    LET named == {k \in 1..Len(path) : path[k] # Dot}
    IN IF named = {} \/ path[Max(named)] = DotDot THEN <<>> ELSE path[Max(named)]

HasExt(path, ext) ==
    /\ EndsWith(LastName(path), <<".">> \o ext)
    /\ Len(LastName(path)) > Len(ext) + 1

\* C4: the result depends on the extension alone, matched exactly and with
\* case: "py" gives Python, "rs" Rust, "js" JavaScript, anything else an
\* error.
C4_ExtensionDecidesType ==
    lastType # "NotYet" =>
        /\ (lastType = "Python") <=> HasExt(lastPath, <<"p", "y">>)
        /\ (lastType = "Rust") <=> HasExt(lastPath, <<"r", "s">>)
        /\ (lastType = "JavaScript") <=> HasExt(lastPath, <<"j", "s">>)
        /\ lastType \in Variants \cup {"Err"}

\* A name with two dots was classified by its last extension.
C4_Witness ==
    /\ lastType = "Python"
    /\ lastPath = << <<"j", ".", "p", "y">> >>

(***************************************************************************)
(* src/src/input.rs: scan_directory over a small file system.              *)
(* fs maps each existing path (a sequence of names below the top           *)
(* directory, <<>> the top itself) to the kind of its node:                *)
(*   "file"        a regular file                                          *)
(*   "dir"         a directory                                             *)
(*   "denied"      a directory that cannot be read                         *)
(*   "fifo"        neither a regular file nor a directory                  *)
(*   "link_file"   a symbolic link to a regular file                       *)
(*   "link_dir"    a symbolic link to the directory Outside                *)
(*   "link_parent" a symbolic link to the directory that holds it          *)
(*   "link_broken" a symbolic link to nothing                              *)
(***************************************************************************)
Kinds == {"file", "dir", "denied", "fifo", "link_file", "link_dir",
          "link_parent", "link_broken"}
NamePy == <<"a", ".", "p", "y">>
NameTxt == <<"b", ".", "t", "x", "t">>
NamePlain == <<"c">>
EntryNames == {NamePy, NameTxt, NamePlain}
\* The directory outside the tree that a "link_dir" points to holds two
\* regular files.
OutsideJs == <<"x", ".", "j", "s">>
OutsideTxt == <<"y", ".", "t", "x", "t">>
Outside == {OutsideJs, OutsideTxt}

Exists(f, p) == p \in DOMAIN f
Children(f, p) == {c \in DOMAIN f : Len(c) = Len(p) + 1 /\ IsPrefix(p, c)}

\* entry.file_type().is_file() under follow_links(true): the kind of what
\* the entry leads to.
IsFile(kind) == kind \in {"file", "link_file"}

\* A slip: no is_file test.
KeepAnyEntry(p, kind) == DetermineFileType(p) # "Err"

\* The body of the loop: the entry is pushed when it is a file whose type
\* is determined.
Keep(p, kind) == IsFile(kind) /\ DetermineFileType(p) # "Err"

\* The entries WalkDir yields without error under follow_links(true), from
\* path p down, each with the kind of what it leads to.  A directory that
\* cannot be read, a link to nothing and a link to an ancestor yield an
\* error in place of what lies below them.
RECURSIVE WalkDir(_, _)
WalkDir(f, p) ==
    IF ~Exists(f, p) THEN {}
    ELSE CASE f[p] \in {"file", "fifo", "link_file", "denied"} -> {<<p, f[p]>>}
           [] f[p] = "dir" ->
                {<<p, "dir">>} \cup UNION {WalkDir(f, c) : c \in Children(f, p)}
           [] f[p] = "link_dir" ->
                {<<p, "dir">>} \cup {<<Append(p, x), "file">> : x \in Outside}
           [] OTHER -> {}

\* scan_directory: the paths pushed.  The order of the Vec is the order in
\* which the directories list their entries, which is left out.
ScanFiles(root) == {e[1] : e \in {x \in WalkDir(fs, root) : Keep(x[1], x[2])}}

NoScan == [done |-> FALSE, root |-> <<>>, files |-> {}, ok |-> TRUE]

ScanDirectory(root) ==
    /\ scan' = [done |-> TRUE, root |-> root, files |-> ScanFiles(root),
                ok |-> TRUE]
    /\ UNCHANGED <<fs, hunkVars, typeVars, lazyVars>>

(***************************************************************************)
(* SpecScan: entries are created below the top directory, and              *)
(* scan_directory is called on the top, on an entry, or on a path that     *)
(* does not exist.  It is not called on a link to the directory that holds *)
(* the link, whose walk would list that directory a second time under the  *)
(* link's name.                                                            *)
(***************************************************************************)
Missing == <<NamePlain, NamePlain, NamePlain>>
TopOnly == (<<>> :> "dir")

Create(p, kind) ==
    /\ Cardinality(DOMAIN fs) <= MaxNodes
    /\ ~Exists(fs, p)
    /\ Exists(fs, SubSeq(p, 1, Len(p) - 1))
    /\ fs[SubSeq(p, 1, Len(p) - 1)] \in {"dir", "denied"}
    /\ fs' = (p :> kind) @@ fs
    /\ scan' = NoScan
    /\ UNCHANGED <<hunkVars, typeVars, lazyVars>>

InitScan ==
    /\ fs = TopOnly /\ scan = NoScan
    /\ HunksIdle /\ TypeIdle /\ LazyIdle

NextScan ==
    \/ \E d \in {<<>>} \cup {<<n>> : n \in EntryNames}, n \in EntryNames, kind \in Kinds :
           Create(Append(d, n), kind)
    \/ \E root \in {p \in DOMAIN fs : fs[p] # "link_parent"} \cup {Missing} :
           ScanDirectory(root)

SpecScan == InitScan /\ [][NextScan]_vars

\* For the claim: p is reached from root through directories that can be
\* read, or lies in the directory a reached link leads to.
ReadableChain(f, root, p) ==
    /\ Exists(f, p) /\ IsPrefix(root, p)
    /\ \A n \in Len(root)..(Len(p) - 1) : f[SubSeq(p, 1, n)] = "dir"
Reached(f, root, p) ==
    \/ ReadableChain(f, root, p)
    \/ /\ Len(p) > 0
       /\ p[Len(p)] \in Outside
       /\ ReadableChain(f, root, SubSeq(p, 1, Len(p) - 1))
       /\ f[SubSeq(p, 1, Len(p) - 1)] = "link_dir"
RegularFile(f, p) ==
    IF Exists(f, p) THEN f[p] \in {"file", "link_file"} ELSE TRUE
SupportedName(p) ==
    /\ p # <<>>
    /\ \E ext \in {<<"p", "y">>, <<"r", "s">>, <<"j", "s">>} :
           EndsWith(p[Len(p)], <<".">> \o ext) /\ Len(p[Len(p)]) > Len(ext) + 1
ScanCandidates ==
    DOMAIN fs \cup {Append(p, x) : p \in DOMAIN fs, x \in Outside}

\* C8: scan_directory succeeds and returns exactly the paths reached from
\* the root (links followed) that lead to a regular file and have a
\* supported extension: no directory, no other kind of node, nothing that
\* lies behind an entry whose enumeration failed.
C8_ScanReturnsSupportedFiles ==
    scan.done =>
        /\ scan.ok
        /\ scan.files = {p \in ScanCandidates :
                            /\ Reached(fs, scan.root, p)
                            /\ RegularFile(fs, p)
                            /\ SupportedName(p)}

\* A scan of a tree with a directory named a.py that holds a link a.py to
\* a regular file: the link is returned, the directory is not.
C8_Witness ==
    /\ scan.done /\ scan.root = <<>>
    /\ Exists(fs, <<NamePy>>) /\ fs[<<NamePy>>] = "dir"
    /\ Exists(fs, <<NamePy, NamePy>>) /\ fs[<<NamePy, NamePy>>] = "link_file"
    /\ scan.files = {<<NamePy, NamePy>>}

(***************************************************************************)
(* src/src/input.rs: the LazyLock statics TS_QUERY_*, tree_sitter_query    *)
(* and tree_sitter_language, called from two threads.                      *)
(* An object is named by the variant it is for and the ordinal of the      *)
(* construction that made it.                                              *)
(***************************************************************************)
Object(what, v, n) == [what |-> what, v |-> v, n |-> n]
\* The calls returned and the calls under way.
CallsMade == Len(got) + Cardinality({t \in Threads : pc[t].at # "idle"})

\* A slip: a lazy cell without the once-guard, which any thread initialises
\* that finds it not yet complete.
MustInitUnguarded(v) == once[v] # "Complete"

\* LazyLock's guard (std::sync::Once): the thread that finds the cell
\* incomplete runs the closure; one that finds it running waits.
MustInit(v) == once[v] = "Incomplete"

\* tree_sitter_query, the dereference of TS_QUERY_<v>: the cell is complete
\* and the reference is returned.
QueryFast(t, v) ==
    /\ pc[t].at = "idle" /\ CallsMade < MaxCalls
    /\ once[v] = "Complete"
    /\ got' = Append(got, Object("query", v, queryBuilds[v]))
    /\ UNCHANGED <<once, queryBuilds, langBuilds, pc>>
    /\ UNCHANGED <<hunkVars, typeVars, scanVars>>

\* The dereference finds the cell incomplete and takes the initialisation.
QueryBegin(t, v) ==
    /\ pc[t].at = "idle" /\ CallsMade < MaxCalls
    /\ MustInit(v)
    /\ once' = [once EXCEPT ![v] = "Running"]
    /\ pc' = [pc EXCEPT ![t] = [at |-> "init", v |-> v]]
    /\ UNCHANGED <<queryBuilds, langBuilds, got>>
    /\ UNCHANGED <<hunkVars, typeVars, scanVars>>

\* The closure runs: tree_sitter::Query::new(..).expect(..).
QueryBuild(t) ==
    /\ pc[t].at = "init"
    /\ queryBuilds' = [queryBuilds EXCEPT ![pc[t].v] = @ + 1]
    /\ pc' = [pc EXCEPT ![t].at = "built"]
    /\ UNCHANGED <<once, langBuilds, got>>
    /\ UNCHANGED <<hunkVars, typeVars, scanVars>>

\* The cell is marked complete and the reference returned.
QueryPublish(t) ==
    /\ pc[t].at = "built"
    /\ once' = [once EXCEPT ![pc[t].v] = "Complete"]
    /\ got' = Append(got, Object("query", pc[t].v, queryBuilds[pc[t].v]))
    /\ pc' = [pc EXCEPT ![t].at = "idle"]
    /\ UNCHANGED <<queryBuilds, langBuilds>>
    /\ UNCHANGED <<hunkVars, typeVars, scanVars>>

\* The dereference finds another thread initialising and waits.
QueryWait(t, v) ==
    /\ pc[t].at = "idle" /\ CallsMade < MaxCalls
    /\ once[v] = "Running" /\ ~MustInit(v)
    /\ pc' = [pc EXCEPT ![t] = [at |-> "wait", v |-> v]]
    /\ UNCHANGED <<once, queryBuilds, langBuilds, got>>
    /\ UNCHANGED <<hunkVars, typeVars, scanVars>>

\* The waiting thread is woken once the cell is complete.
QueryWake(t) ==
    /\ pc[t].at = "wait"
    /\ once[pc[t].v] = "Complete"
    /\ got' = Append(got, Object("query", pc[t].v, queryBuilds[pc[t].v]))
    /\ pc' = [pc EXCEPT ![t].at = "idle"]
    /\ UNCHANGED <<once, queryBuilds, langBuilds>>
    /\ UNCHANGED <<hunkVars, typeVars, scanVars>>

\* tree_sitter_language: LANGUAGE.into() makes a tree_sitter::Language for
\* the call, which is returned by value.
TreeSitterLanguage(t, v) ==
    /\ pc[t].at = "idle" /\ CallsMade < MaxCalls
    /\ langBuilds' = [langBuilds EXCEPT ![v] = @ + 1]
    /\ got' = Append(got, Object("language", v, langBuilds[v] + 1))
    /\ UNCHANGED <<once, queryBuilds, pc>>
    /\ UNCHANGED <<hunkVars, typeVars, scanVars>>

InitLazy == LazyIdle /\ HunksIdle /\ TypeIdle /\ ScanIdle

NextLazy ==
    \E t \in Threads :
        \/ \E v \in Variants : QueryFast(t, v)
        \/ \E v \in Variants : QueryBegin(t, v)
        \/ QueryBuild(t)
        \/ QueryPublish(t)
        \/ \E v \in Variants : QueryWait(t, v)
        \/ QueryWake(t)
        \/ \E v \in Variants : TreeSitterLanguage(t, v)

SpecLazy == InitLazy /\ [][NextLazy]_vars

====
